---- MODULE Spec2Model ----
(***************************************************************************)
(* ServiceBusPubSub (package/graphql-azure-servicebus-subscriptions/src/  *)
(* ServiceBusPubSub.ts): a PubSubEngine that multiplexes one Azure Service *)
(* Bus receiver over many logical subscriptions through an rxjs Subject.   *)
(*                                                                         *)
(* The state is the instance's fields (options, subscriptions, the         *)
(* Subject's observers) and what the broker client has been asked to do    *)
(* (createSender, createReceiver, createSubscription, close, sendMessages).*)
(* JavaScript values are records [kind, f]: kind is the runtime type and f *)
(* the own string-valued fields of an object.                              *)
(***************************************************************************)
EXTENDS Naturals, Sequences, FiniteSets, TLC

\* ------------------------------------------------------------------ bounds
\* subscribe calls made on the instance
MaxSubscribe == 2
\* subscription ids are drawn from 0..MaxId
MaxId == 1
\* initialize() calls made by the consumer, after the constructor's own
MaxInitialize == 1
\* messages the sender has accepted that the receiver has not yet delivered
MaxInFlight == 1
\* deliveries recorded in the history log
MaxDelivered == 2
\* unsubscribe calls of the variant that are awaiting close() at one time
MaxClosing == 2
\* subscriptions made in the snapshot scenario: the one whose callback
\* unsubscribes, the one it unsubscribes, and one other
MaxSnapshot == 3

\* ------------------------------------------------------- JavaScript values
Undefined == "undefined"
NoFields == [k \in {} |-> Undefined]
JsUndefined == [kind |-> "undefined", f |-> NoFields]
JsNull == [kind |-> "null", f |-> NoFields]
JsString == [kind |-> "string", f |-> NoFields]
JsNumber == [kind |-> "number", f |-> NoFields]
JsObject(f) == [kind |-> "object", f |-> f]

\* v == undefined (loose equality: undefined or null)
IsNullish(v) == v.kind \in {"undefined", "null"}

\* v[k] for a v that is not nullish: a missing field, and any field of a
\* primitive string or number, reads as undefined
GetField(v, k) ==
  IF v.kind = "object" /\ k \in DOMAIN v.f THEN v.f[k] ELSE Undefined

\* v[k] = x on an object
SetField(v, k, x) ==
  [v EXCEPT !.f = [j \in DOMAIN v.f \cup {k} |-> IF j = k THEN x ELSE v.f[j]]]

\* all objects whose fields are among keys, with values among vals
Objects(keys, vals) ==
  UNION {{JsObject(f) : f \in [d -> vals]} : d \in SUBSET keys}

\* ------------------------------------------------------------ input domains
EventNames == {"A", "B", "*", ""}
TagValues == {"A", ""}
DefaultEventNameKey == "eventName"
EventNameKeys == {Undefined, "", "key"}
Ids == 0..MaxId

VARIABLES
  options,        \* IServiceBusOptions given to the constructor
  initCalls,      \* the initialize() invocations, the constructor's first
  adminCalls,     \* adminClient.createSubscription calls made
  receivers,      \* the receivers client.createReceiver returned
  pipes,          \* the rxjs Subscriptions subscribe created on the Subject
  subscriptions,  \* Map<number, Subscription>: id -> index into pipes
  last,           \* the last operation and what it returned or invoked
  topic,          \* messages sent to the topic, not yet delivered to us
  brokerSubscription, \* the broker holds the subscription entity
  peer,           \* the startup of another instance on the same subscription
  senders,        \* the senders client.createSender returned
  log,            \* history: the messages delivered and the callback invocations
  variant         \* an instance of the per-event-name variant of the class

vars == <<options, initCalls, adminCalls, receivers, pipes, subscriptions, last,
          topic, brokerSubscription, peer, senders, log, variant>>

\* mutant: the configured key is ignored
eventNameKeyDefault == DefaultEventNameKey

\* this.eventNameKey = this.options.eventNameKey || this.eventNameKey
eventNameKey ==
  IF options.eventNameKey \in {Undefined, ""}
    THEN DefaultEventNameKey
    ELSE options.eventNameKey

useCustomProperty == options.useCustomPropertyForEventName

\* ---------------------------------------------------------------- startup
\* the condition guarding the admin call in initialize
Provisioning ==
  options.createSubscription /\ options.createSubscriptionOptions

\* client.createReceiver(topic, subscription).subscribe(handlers)
createReceiver(rs) == Append(rs, [closed |-> FALSE])

\* initialize() up to its first await, or to its end when nothing is awaited
StartInitialize(caller, calls, rs, admin) ==
  IF Provisioning
    THEN [calls |-> Append(calls, [caller |-> caller, pc |-> "createSubscription"]),
          receivers |-> rs,
          adminCalls |-> admin + 1]
    ELSE [calls |-> Append(calls, [caller |-> caller, pc |-> "done"]),
          receivers |-> createReceiver(rs),
          adminCalls |-> admin]

OptionsWith(keys) ==
  [connectionString : {""},
   useCustomPropertyForEventName : BOOLEAN,
   createSubscription : BOOLEAN,
   createSubscriptionOptions : BOOLEAN,
   eventNameKey : keys]

\* this.sender = this.client.createSender(this.options.topicName)
createSender(ss) == Append(ss, "sender")

\* nothing delivered yet
NoLog == [delivered |-> <<>>, invoked |-> <<>>]

\* new ServiceBusPubSub(opts, client, adminClient)
Construct(opts) ==
  /\ options = opts
  /\ senders = createSender(<<>>)
  /\ log = NoLog
  /\ LET s == StartInitialize("constructor", <<>>, <<>>, 0)
     IN /\ initCalls = s.calls
        /\ receivers = s.receivers
        /\ adminCalls = s.adminCalls
  /\ pipes = <<>>
  /\ subscriptions = [i \in {} |-> 0]
  /\ last = [op |-> "constructor"]
  /\ topic = <<>>

\* no instance of the per-event-name variant
NoVariant ==
  [options |-> [filterEnabled |-> FALSE, messageLabelKeyName |-> ""],
   receivers |-> 0,
   receiverMap |-> [e \in {} |-> 0],
   handles |-> <<>>,
   handlerMap |-> [i \in {} |-> 0],
   closeHandlerMap |-> [i \in {} |-> 0],
   closing |-> <<>>,
   senders |-> 0,
   senderMap |-> [e \in {} |-> 0],
   last |-> [op |-> "none"]]

\* no other instance
NoPeer == [pc |-> "absent", answer |-> "none", receivers |-> 0]

\* another instance, constructed with the same options, whose initialize()
\* is awaiting createSubscription
StartedPeer == [pc |-> "createSubscription", answer |-> "none", receivers |-> 0]

\* the broker when the instance is constructed: with provisioning the
\* subscription entity may or may not exist yet, without it the entity is
\* the one the deployment created beforehand
Broker ==
  brokerSubscription \in (IF Provisioning THEN BOOLEAN ELSE {TRUE})

\* the engine is run with the default key; publish is run with every key
Init ==
  \E opts \in OptionsWith({Undefined}) :
    Construct(opts) /\ Broker /\ peer = NoPeer /\ variant = NoVariant
InitPublish ==
  \E opts \in OptionsWith(EventNameKeys) :
    Construct(opts) /\ Broker /\ peer = NoPeer /\ variant = NoVariant

\* a consumer calls the public initialize()
initialize ==
  /\ Len(initCalls) < 1 + MaxInitialize
  /\ LET s == StartInitialize("consumer", initCalls, receivers, adminCalls)
     IN /\ initCalls' = s.calls
        /\ receivers' = s.receivers
        /\ adminCalls' = s.adminCalls
  /\ last' = [op |-> "initialize"]
  /\ UNCHANGED <<options, variant, senders, log, pipes, subscriptions, topic, brokerSubscription, peer>>

\* mutant: the catch block tests for another error code
IsAlreadyExistsMisspelled(err) == err = "MessagingEntityAlreadyExistsError"

\* the error test of initialize's catch block
IsAlreadyExists(err) == err = "MessageEntityAlreadyExistsError"

AdminOutcomes == {"created", "MessageEntityAlreadyExistsError", "OtherError"}

\* where an error thrown by initialize() ends up: the constructor discards the
\* promise of its async wrapper, a consumer holds the promise it was returned
RejectionSink(caller) ==
  IF caller = "constructor" THEN "unhandledRejection" ELSE "caller"

\* what the broker can answer to createSubscription: it creates the entity
\* when there is none, reports the existing one, or fails otherwise
BrokerAnswers(outcome) ==
  /\ outcome = "created" => ~brokerSubscription
  /\ outcome = "MessageEntityAlreadyExistsError" => brokerSubscription

\* initialize goes on to createReceiver after this outcome of the admin call
Continues(outcome) == outcome = "created" \/ IsAlreadyExists(outcome)

\* adminClient.createSubscription settles and initialize runs to its end
createSubscriptionSettlesAs(outcomes) ==
  \E i \in 1..Len(initCalls), outcome \in outcomes :
    /\ initCalls[i].pc = "createSubscription"
    /\ BrokerAnswers(outcome)
    /\ brokerSubscription' = (brokerSubscription \/ outcome = "created")
    /\ IF Continues(outcome)
         THEN /\ initCalls' = [initCalls EXCEPT ![i].pc = "done"]
              /\ receivers' = createReceiver(receivers)
         ELSE /\ initCalls' = [initCalls EXCEPT ![i].pc = "threw"]
              /\ receivers' = receivers
    /\ last' = [op |-> "createSubscriptionSettles", call |-> i, outcome |-> outcome,
                rejection |-> IF Continues(outcome)
                                THEN "none"
                                ELSE RejectionSink(initCalls[i].caller)]
    /\ UNCHANGED <<options, variant, senders, log, adminCalls, pipes, subscriptions, topic, peer>>

createSubscriptionSettles == createSubscriptionSettlesAs(AdminOutcomes)

\* the answers of a broker that serves the admin call
ProvisioningAnswers == {"created", "MessageEntityAlreadyExistsError"}

createSubscriptionAnswered == createSubscriptionSettlesAs(ProvisioningAnswers)

\* the other instance's createSubscription settles and its initialize runs
\* to its end, by the same code
peerCreateSubscriptionSettles ==
  \E outcome \in ProvisioningAnswers :
    /\ peer.pc = "createSubscription"
    /\ BrokerAnswers(outcome)
    /\ brokerSubscription' = (brokerSubscription \/ outcome = "created")
    /\ peer' = IF Continues(outcome)
                 THEN [pc |-> "done", answer |-> outcome, receivers |-> 1]
                 ELSE [pc |-> "threw", answer |-> outcome, receivers |-> 0]
    /\ last' = [op |-> "peerCreateSubscriptionSettles", outcome |-> outcome]
    /\ UNCHANGED <<options, variant, senders, log, initCalls, adminCalls, receivers, pipes,
                   subscriptions, topic>>

\* ------------------------------------------------------- subscribe/dispatch
\* event.applicationProperties?.[this.eventNameKey]
PropertyTag(event) ==
  IF IsNullish(event.applicationProperties)
    THEN Undefined
    ELSE GetField(event.applicationProperties, eventNameKey)

\* the predicate given to filter() throws: event.body[key] on a missing body
filterThrows(eventName, event) ==
  /\ eventName # ""
  /\ ~useCustomProperty
  /\ IsNullish(event.body)

\* the predicate given to filter(), when it does not throw
filterPredicate(eventName, event) ==
  \/ (eventName # "" /\ useCustomProperty /\ PropertyTag(event) = eventName)
  \/ (eventName # "" /\ ~useCustomProperty
        /\ GetField(event.body, eventNameKey) = eventName)
  \/ eventName = "*"

\* mutant: the stream is subscribed without the map operator
mapBodyIdentity(event) == event

\* map(event => event.body)
mapBody(event) == event.body

\* what Subject.next(event) does with one observer: a closed one is skipped,
\* a throwing predicate errors the observer (rxjs unsubscribes it and reports
\* the error), a match passes map(event => event.body) to onMessage
Observe(p, event) ==
  IF p.closed THEN "skipped"
  ELSE IF filterThrows(p.eventName, event) THEN "error"
  ELSE IF filterPredicate(p.eventName, event) THEN "next"
  ELSE "filtered"

\* id = Date.now() * Math.random(): some number, nothing makes it fresh
subscribeWithin(n, ids) ==
  \E eventName \in EventNames, id \in ids :
    /\ Len(pipes) < n
    /\ pipes' = Append(pipes, [eventName |-> eventName, id |-> id,
                               closed |-> FALSE, unsubscribed |-> FALSE])
    /\ subscriptions' =
         [i \in DOMAIN subscriptions \cup {id} |->
            IF i = id THEN Len(pipes) + 1 ELSE subscriptions[i]]
    /\ last' = [op |-> "subscribe", eventName |-> eventName, id |-> id,
                outcome |-> "resolved"]
    /\ UNCHANGED <<options, variant, senders, log, initCalls, adminCalls, receivers, topic,
                   brokerSubscription, peer>>

subscribe == subscribeWithin(MaxSubscribe, Ids)

NoSubscription == 0

\* this.subscriptions.get(subId) || undefined
subscriptionsGet(subId) ==
  IF subId \in DOMAIN subscriptions THEN subscriptions[subId] ELSE NoSubscription

\* mutant: the map entry is dropped but the stream is left subscribed
rxUnsubscribeForgotten(ps, h) == ps

\* subscription.unsubscribe() on the rxjs Subscription h
rxUnsubscribe(ps, h) == [ps EXCEPT ![h].closed = TRUE]

\* this.subscriptions.delete(subId)
subscriptionsDelete(subId) ==
  [i \in DOMAIN subscriptions \ {subId} |-> subscriptions[i]]

\* mutant: unsubscribing the last entry closes the receivers, as the
\* one-receiver-per-event design did
unsubscribeClosingReceiver(subId) ==
  LET h == subscriptionsGet(subId)
  IN IF h = NoSubscription
       THEN [pipes |-> pipes, subscriptions |-> subscriptions,
             receivers |-> receivers, outcome |-> "resolved"]
       ELSE [pipes |-> rxUnsubscribe(pipes, h),
             subscriptions |-> subscriptionsDelete(subId),
             receivers |-> IF DOMAIN subscriptions = {subId}
                             THEN [r \in DOMAIN receivers |-> [closed |-> TRUE]]
                             ELSE receivers,
             outcome |-> "resolved"]

\* mutant: no test for an unknown id, so .unsubscribe() is called on undefined
unsubscribeUnguarded(subId) ==
  LET h == subscriptionsGet(subId)
  IN IF h = NoSubscription
       THEN [pipes |-> pipes, subscriptions |-> subscriptions,
             receivers |-> receivers, outcome |-> "TypeError"]
       ELSE [pipes |-> rxUnsubscribe(pipes, h),
             subscriptions |-> subscriptionsDelete(subId),
             receivers |-> receivers, outcome |-> "resolved"]

\* async unsubscribe(subId): the fields it leaves behind and how it settles
unsubscribeResult(subId) ==
  LET h == subscriptionsGet(subId)
  IN IF h = NoSubscription
       THEN [pipes |-> pipes, subscriptions |-> subscriptions,
             receivers |-> receivers, outcome |-> "resolved"]
       ELSE [pipes |-> rxUnsubscribe(pipes, h),
             subscriptions |-> subscriptionsDelete(subId),
             receivers |-> receivers, outcome |-> "resolved"]

\* pipes[h].unsubscribed records that unsubscribe completed on entry h
unsubscribe ==
  \E subId \in Ids :
    LET h == subscriptionsGet(subId)
        res == unsubscribeResult(subId)
    IN /\ pipes' = [i \in DOMAIN pipes |->
                      IF i = h THEN [res.pipes[i] EXCEPT !.unsubscribed = TRUE]
                               ELSE res.pipes[i]]
       /\ subscriptions' = res.subscriptions
       /\ receivers' = res.receivers
       /\ last' = [op |-> "unsubscribe", subId |-> subId,
                   known |-> h # NoSubscription, outcome |-> res.outcome]
       /\ UNCHANGED <<options, variant, senders, log, initCalls, adminCalls, topic, brokerSubscription,
                      peer>>

\* the messages a receiver may deliver, ours and other publishers': with no
\* body, untagged, tagged in the body, tagged in applicationProperties
Tagged(t) == SetField(JsObject(NoFields), eventNameKey, t)
ReceivedMessages ==
  {[body |-> JsUndefined, applicationProperties |-> JsUndefined],
   [body |-> JsObject(NoFields), applicationProperties |-> JsUndefined]}
    \cup {[body |-> Tagged(t), applicationProperties |-> JsUndefined] : t \in TagValues}
    \cup {[body |-> JsObject(NoFields), applicationProperties |-> Tagged(t)] : t \in TagValues}
    \cup {[body |-> JsUndefined, applicationProperties |-> Tagged(t)] : t \in {"A"}}

\* the delivered message is not one this instance published
NoPublish == [eventName |-> Undefined, payload |-> JsUndefined]

\* processMessage: this.subject.next({...message}); published is the publish
\* call the message came from
Dispatch(event, published) ==
  /\ pipes' = [h \in DOMAIN pipes |->
                 IF Observe(pipes[h], event) = "error"
                   THEN [pipes[h] EXCEPT !.closed = TRUE]
                   ELSE pipes[h]]
  /\ last' = [op |-> "processMessage", event |-> event, published |-> published,
              calls |-> [h \in DOMAIN pipes |->
                           IF Observe(pipes[h], event) = "next"
                             THEN <<mapBody(event)>>
                             ELSE <<>>],
              by |-> 0, target |-> NoSubscription]

processMessage ==
  \E event \in ReceivedMessages :
    /\ \E r \in 1..Len(receivers) : ~receivers[r].closed
    /\ Dispatch(event, NoPublish)
    /\ UNCHANGED <<options, variant, senders, log, initCalls, adminCalls, receivers, subscriptions,
                   topic, brokerSubscription, peer>>

\* the Service Bus receiver delivers the oldest message of the topic that
\* publish sent: the broker keeps a message until a receiver is attached, and
\* only an open receiver calls the processMessage handler initialize gave it.
\* (The test double FakeMessageReceiver.flush is looser: it calls the handler
\* after close() too and discards what is pending while no handler is set.)
processPublished ==
  /\ topic # <<>>
  /\ \E r \in 1..Len(receivers) : ~receivers[r].closed
  /\ Dispatch(Head(topic).message,
              [eventName |-> Head(topic).eventName, payload |-> Head(topic).payload])
  /\ topic' = Tail(topic)
  /\ UNCHANGED <<options, variant, senders, log, initCalls, adminCalls, receivers, subscriptions,
                 brokerSubscription, peer>>

\* the invocations of one delivery, in the order Subject.next makes them:
\* the observers in the order they subscribed
RECURSIVE InvokedFrom(_, _, _)
InvokedFrom(calls, n, h) ==
  IF h > Len(calls) THEN <<>>
  ELSE (IF calls[h] = <<>> THEN <<>>
        ELSE <<[h |-> h, n |-> n, body |-> calls[h][1]]>>)
         \o InvokedFrom(calls, n, h + 1)

\* the messages delivered while the history is kept: tagged "A" in the body,
\* tagged "A" in applicationProperties with and without a body, untagged
LoggedMessages ==
  {[body |-> Tagged("A"), applicationProperties |-> JsUndefined],
   [body |-> JsObject(NoFields), applicationProperties |-> Tagged("A")],
   [body |-> JsUndefined, applicationProperties |-> Tagged("A")],
   [body |-> JsObject(NoFields), applicationProperties |-> JsUndefined]}

\* processMessage when the callback of subscription `by` calls
\* unsubscribe(subId) as it is invoked.  Subject.next notifies a copy of the
\* observer list taken when it starts, in subscription order; unsubscribe
\* runs to its end inside the callback, so an observer it stopped that comes
\* later in the copy is skipped, and one that came earlier has already run.
\* The delivery and its invocations are appended to the history log.
processMessageUnsubscribingOf(messages, ids) ==
  \E event \in messages, by \in DOMAIN pipes, subId \in ids :
    LET ran == Observe(pipes[by], event) = "next"
        res == unsubscribeResult(subId)
        t == IF ran THEN subscriptionsGet(subId) ELSE NoSubscription
        seen == [h \in DOMAIN pipes |->
                   IF h = t /\ h > by THEN res.pipes[h] ELSE pipes[h]]
        calls == [h \in DOMAIN pipes |->
                    IF Observe(seen[h], event) = "next"
                      THEN <<mapBody(event)>>
                      ELSE <<>>]
        n == Len(log.delivered) + 1
    IN /\ \E r \in 1..Len(receivers) : ~receivers[r].closed
       /\ Len(log.delivered) < MaxDelivered
       /\ pipes' = [h \in DOMAIN pipes |->
                      [pipes[h] EXCEPT
                         !.closed = @ \/ Observe(seen[h], event) = "error"
                                      \/ (ran /\ res.pipes[h].closed),
                         !.unsubscribed = @ \/ h = t]]
       /\ subscriptions' = IF ran THEN res.subscriptions ELSE subscriptions
       /\ receivers' = IF ran THEN res.receivers ELSE receivers
       /\ last' = [op |-> "processMessage", event |-> event,
                   published |-> NoPublish, calls |-> calls,
                   by |-> by, target |-> t]
       /\ log' = [delivered |-> Append(log.delivered, event),
                  invoked |-> log.invoked \o InvokedFrom(calls, n, 1)]
       /\ UNCHANGED <<options, variant, senders, initCalls, adminCalls, topic,
                      brokerSubscription, peer>>

processMessageUnsubscribing ==
  processMessageUnsubscribingOf(LoggedMessages, Ids)

\* the message of the snapshot scenario: tagged with the empty event name, in
\* applicationProperties and in the body
SnapshotMessages ==
  {[body |-> Tagged(""), applicationProperties |-> Tagged("")]}

\* the ids of the snapshot scenario: enough for its subscriptions to differ
SnapshotIds == 0..(MaxSnapshot - 1)

subscribeSnapshot == subscribeWithin(MaxSnapshot, SnapshotIds)

processSnapshotMessage ==
  processMessageUnsubscribingOf(SnapshotMessages, SnapshotIds)

\* ------------------------------------------------------------ processError
\* mutant: the ServiceBusy case falls through to the close
FatalCodesAndServiceBusy ==
  {"MessagingEntityDisabled", "MessagingEntityNotFound", "UnauthorizedAccess",
   "ServiceBusy"}

FatalCodes == {"MessagingEntityDisabled", "MessagingEntityNotFound", "UnauthorizedAccess"}
\* "NotServiceBusError" stands for an error isServiceBusError rejects
ErrorCodes ==
  FatalCodes \cup {"MessageLockLost", "ServiceBusy", "GeneralError", "NotServiceBusError"}

\* await delay(1000)
BackoffMs == 1000

processError ==
  \E r \in 1..Len(receivers), code \in ErrorCodes :
    /\ ~receivers[r].closed
    /\ receivers' = IF code \in FatalCodes
                      THEN [receivers EXCEPT ![r].closed = TRUE]
                      ELSE receivers
    /\ last' = [op |-> "processError", code |-> code,
                delay |-> IF code = "ServiceBusy" THEN BackoffMs ELSE 0]
    /\ UNCHANGED <<options, variant, senders, log, initCalls, adminCalls, pipes, subscriptions, topic,
                   brokerSubscription, peer>>

\* ----------------------------------------------------------------- publish
\* a payload that is not an IMessage: body reads as undefined
RawPayload(v) ==
  [kind |-> v.kind, f |-> v.f, body |-> JsUndefined,
   applicationProperties |-> JsUndefined]

\* a caller-built IMessage
Envelope(body, props) ==
  [kind |-> "object", f |-> NoFields, body |-> body,
   applicationProperties |-> props]

PayloadValues == {"B"}
PublishNames == {"A", "B"}
RawValues ==
  {JsUndefined, JsNull, JsString, JsNumber} \cup Objects({eventNameKey, "msg"}, PayloadValues)
EnvelopeBodies ==
  {JsNull, JsString, JsNumber} \cup Objects({eventNameKey, "msg"}, PayloadValues)
EnvelopeProperties ==
  {JsUndefined, JsNull} \cup Objects({eventNameKey, "other"}, PayloadValues)
Payloads ==
  {RawPayload(v) : v \in RawValues}
    \cup {Envelope(b, p) : b \in EnvelopeBodies, p \in EnvelopeProperties}

\* (payload as IMessage).body !== undefined
isServiceBusMessage(payload) == payload.body.kind # "undefined"

\* mutant: the key is set whatever the message already holds there
enrichMessageOverwriting(key, value, message) ==
  IF IsNullish(message.applicationProperties)
    THEN [message EXCEPT
            !.applicationProperties = SetField(JsObject(NoFields), key, value)]
    ELSE [message EXCEPT !.applicationProperties = SetField(@, key, value)]

\* mutant: the caller's applicationProperties are replaced by the tag alone
enrichMessageReplacing(key, value, message) ==
  [message EXCEPT
     !.applicationProperties = SetField(JsObject(NoFields), key, value)]

\* enrichMessage(new Map([[key, value]]), message): sets the key only when
\* message.applicationProperties[key] === undefined
enrichMessage(key, value, message) ==
  IF IsNullish(message.applicationProperties)
    THEN [message EXCEPT
            !.applicationProperties = SetField(JsObject(NoFields), key, value)]
    ELSE IF GetField(message.applicationProperties, key) = Undefined
      THEN [message EXCEPT
              !.applicationProperties = SetField(@, key, value)]
      ELSE message

\* mutant: the body field is set only when the body holds none
setBodyTagIfAbsent(body, key, value) ==
  IF GetField(body, key) = Undefined THEN SetField(body, key, value) ELSE body

\* message.body[this.eventNameKey] = eventName
setBodyTag(body, key, value) == SetField(body, key, value)

Sent(message) == [outcome |-> "sent", message |-> message]
Threw(error) ==
  [outcome |-> error,
   message |-> [body |-> JsUndefined, applicationProperties |-> JsUndefined]]

\* v[k] = x succeeds: in a module (strict mode) the assignment throws a
\* TypeError when v is a primitive, null or undefined
canAssignField(v) == v.kind = "object"

\* mutant: the property strategy writes the event name into the payload too
wrapPayloadTaggingBoth(eventName, body) ==
  IF useCustomProperty
    THEN Sent([body |-> IF body.kind = "object"
                          THEN SetField(body, eventNameKey, eventName)
                          ELSE body,
               applicationProperties |->
                 SetField(JsObject(NoFields), eventNameKey, eventName)])
    ELSE IF canAssignField(body)
           THEN Sent([body |-> setBodyTag(body, eventNameKey, eventName),
                      applicationProperties |-> JsUndefined])
           ELSE Threw("TypeError")

\* publish of a payload that is not an IMessage: the message built around it
wrapPayload(eventName, body) ==
  IF useCustomProperty
    THEN Sent([body |-> body,
               applicationProperties |->
                 SetField(JsObject(NoFields), eventNameKey, eventName)])
    ELSE IF canAssignField(body)
           THEN Sent([body |-> setBodyTag(body, eventNameKey, eventName),
                      applicationProperties |-> JsUndefined])
           ELSE Threw("TypeError")

\* publish(eventName, payload): the message handed to sender.sendMessages,
\* or the TypeError thrown before it
PublishResult(eventName, payload) ==
  IF IsNullish(payload) THEN Threw("TypeError")
  ELSE IF isServiceBusMessage(payload)
    THEN LET message == [body |-> payload.body,
                         applicationProperties |-> payload.applicationProperties]
         IN IF useCustomProperty
              THEN IF IsNullish(message.applicationProperties)
                     THEN Sent([message EXCEPT !.applicationProperties =
                                  SetField(JsObject(NoFields), eventNameKey, eventName)])
                     ELSE Sent(enrichMessage(eventNameKey, eventName, message))
              ELSE IF canAssignField(message.body)
                     THEN Sent([message EXCEPT
                                  !.body = setBodyTag(@, eventNameKey, eventName)])
                     ELSE Threw("TypeError")
    ELSE wrapPayload(eventName, [kind |-> payload.kind, f |-> payload.f])

\* the caller's payload object once publish has sent it: publish assigns to
\* the object it was given (message is payload, body[key] = and payload[key] =)
payloadAfterPublish(eventName, payload) ==
  LET message == PublishResult(eventName, payload).message
  IN IF isServiceBusMessage(payload)
       THEN [payload EXCEPT !.body = message.body,
                            !.applicationProperties = message.applicationProperties]
       ELSE [payload EXCEPT !.f = message.body.f]

\* what the sender answers to one sendMessages call
SendOutcomes == {"accepted", "SendError"}

\* mutant: a failed send is attempted a second time
sendMessagesRetrying(message, answer) ==
  [outcome |-> IF answer = "accepted" THEN "sent" ELSE answer,
   message |-> message,
   answer |-> answer,
   sends |-> IF answer = "accepted" THEN 1 ELSE 2]

\* return this.sender.sendMessages(message): one call, its promise returned
sendMessages(message, answer) ==
  [outcome |-> IF answer = "accepted" THEN "sent" ELSE answer,
   message |-> message,
   answer |-> answer,
   sends |-> 1]

\* this.sender (the main class; the variant's publish is variantPublish): the
\* sender publish hands the message to, and the senders
\* there are after the call
publishSender(eventName) == [senders |-> senders, sender |-> 1]

\* mutant: publish also pushes the message onto the Subject, as an in-memory
\* PubSub does
publishCallsLocal(message) ==
  [h \in DOMAIN pipes |->
     IF Observe(pipes[h], message) = "next" THEN <<mapBody(message)>> ELSE <<>>]

\* the subscriber callbacks publish invokes: it never calls this.subject.next
publishCalls(message) == [h \in DOMAIN pipes |-> <<>>]

Publish(eventName, payload, answer) ==
  LET res == PublishResult(eventName, payload)
      via == publishSender(eventName)
      settled == IF res.outcome = "sent"
                   THEN sendMessages(res.message, answer)
                   ELSE [outcome |-> res.outcome, message |-> res.message,
                         answer |-> "notAsked", sends |-> 0]
  IN /\ Len(topic) < MaxInFlight
     /\ senders' = via.senders
     /\ last' = [op |-> "publish", eventName |-> eventName, payload |-> payload,
                 outcome |-> settled.outcome, message |-> settled.message,
                 answer |-> settled.answer, sends |-> settled.sends,
                 sender |-> via.sender,
                 calls |-> IF res.outcome = "sent"
                             THEN publishCalls(res.message)
                             ELSE [h \in DOMAIN pipes |-> <<>>]]
     /\ topic' = IF settled.outcome = "sent"
                   THEN Append(topic, [message |-> settled.message,
                                       eventName |-> eventName,
                                       payload |-> payload])
                   ELSE topic
     /\ UNCHANGED <<options, variant, log, initCalls, adminCalls, receivers, pipes,
                    subscriptions, brokerSubscription, peer>>

publish ==
  \E eventName \in PublishNames, payload \in Payloads, answer \in SendOutcomes :
    Publish(eventName, payload, answer)

\* the payloads publish is given while the engine runs
EnginePayloads == {RawPayload(SetField(JsObject(NoFields), "msg", "B"))}

enginePublish ==
  \E payload \in EnginePayloads, answer \in SendOutcomes :
    Publish("A", payload, answer)

\* ------------------------------------------- the per-event-name variant
\* the fields of the main class's instance
instance == <<options, initCalls, adminCalls, receivers, pipes, subscriptions,
              last, topic, brokerSubscription, peer, senders, log>>

VariantOptions == [filterEnabled : BOOLEAN, messageLabelKeyName : {"", "key"}]
VariantEventNames == {"A", "B", ""}

\* new ServiceBusPubSub(options, client) of the variant
VariantConstruct(opts) ==
  [NoVariant EXCEPT !.options = opts, !.last = [op |-> "constructor"]]

\* this.eventNameKey = this.options.messageLabelKeyName || "sub.eventName"
variantEventNameKey ==
  IF variant.options.messageLabelKeyName = ""
    THEN "sub.eventName"
    ELSE variant.options.messageLabelKeyName

\* mutant: every subscribe creates a receiver
receiverForEachCall(eventName) ==
  [receiver |-> variant.receivers + 1, receivers |-> variant.receivers + 1]

\* this.receiverMap.get(eventName) || this.client.createReceiver(...)
receiverFor(eventName) ==
  IF eventName \in DOMAIN variant.receiverMap
    THEN [receiver |-> variant.receiverMap[eventName],
          receivers |-> variant.receivers]
    ELSE [receiver |-> variant.receivers + 1,
          receivers |-> variant.receivers + 1]

\* subscribe(eventName, onMessage) of the variant: a handle is what
\* receiver.subscribe returned, with the closure's eventName
variantSubscribe ==
  \E eventName \in VariantEventNames, id \in Ids :
    LET r == receiverFor(eventName)
        h == Len(variant.handles) + 1
    IN /\ Len(variant.handles) < MaxSubscribe
       /\ variant' =
            [variant EXCEPT
               !.receivers = r.receivers,
               !.receiverMap =
                 [e \in DOMAIN variant.receiverMap \cup {eventName} |->
                    IF e = eventName THEN r.receiver ELSE variant.receiverMap[e]],
               !.handles = Append(@, [eventName |-> eventName, id |-> id,
                                      receiver |-> r.receiver,
                                      closeCalled |-> FALSE, closed |-> FALSE]),
               !.handlerMap =
                 [i \in DOMAIN variant.handlerMap \cup {id} |->
                    IF i = id THEN h ELSE variant.handlerMap[i]],
               !.closeHandlerMap =
                 [i \in DOMAIN variant.closeHandlerMap \cup {id} |->
                    IF i = id THEN h ELSE variant.closeHandlerMap[i]],
               !.last = [op |-> "subscribe", eventName |-> eventName, id |-> id]]
       /\ UNCHANGED instance

\* unsubscribe(subId) of the variant up to its await: nothing for an id
\* handlerMap does not hold, else close() is called on the handle
\* closeHandlerMap holds for it.  variant.closing holds one entry for every
\* unsubscribe call that is awaiting close(), in the order of the calls: a
\* second call for the same id made meanwhile awaits, and later deletes, too
variantUnsubscribe ==
  \E subId \in Ids :
    /\ variant.last.op # "none"
    /\ IF subId \notin DOMAIN variant.handlerMap
         THEN variant' = [variant EXCEPT
                !.last = [op |-> "unsubscribe", subId |-> subId,
                          known |-> FALSE, handle |-> 0]]
         ELSE LET c == variant.closeHandlerMap[subId]
              IN /\ Len(variant.closing) < MaxClosing
                 /\ variant' = [variant EXCEPT
                      !.handles[c].closeCalled = TRUE,
                      !.closing = Append(@, [subId |-> subId, handle |-> c]),
                      !.last = [op |-> "unsubscribe", subId |-> subId,
                                known |-> TRUE, handle |-> c]]
    /\ UNCHANGED instance

\* what the handle answers to close()
CloseOutcomes == {"resolved", "CloseError"}

\* the pending calls without the k-th
WithoutCall(calls, k) ==
  [j \in 1..(Len(calls) - 1) |-> IF j < k THEN calls[j] ELSE calls[j + 1]]

\* the close() one unsubscribe call awaits settles: that call goes on to
\* this.handlerMap.delete(subId), whatever entry subId has by then, or rejects
\* with the error of close()
variantCloseSettles ==
  \E k \in DOMAIN variant.closing, answer \in CloseOutcomes :
    LET p == variant.closing[k]
    IN /\ variant' =
            [variant EXCEPT
               !.closing = WithoutCall(@, k),
               !.handles[p.handle].closed = (@ \/ answer = "resolved"),
               !.handlerMap =
                 IF answer = "resolved"
                   THEN [i \in DOMAIN variant.handlerMap \ {p.subId} |->
                           variant.handlerMap[i]]
                   ELSE @,
               !.last = [op |-> "closeSettles", subId |-> p.subId,
                         handle |-> p.handle, answer |-> answer]]
       /\ UNCHANGED instance

\* the messages a receiver of the variant may deliver
VariantTagged(t) == SetField(JsObject(NoFields), variantEventNameKey, t)
VariantMessages ==
  {[body |-> JsString, applicationProperties |-> p] :
     p \in {JsUndefined, JsObject(NoFields), VariantTagged("A"), VariantTagged("")}}
    \cup {[body |-> JsUndefined, applicationProperties |-> VariantTagged("A")]}

\* mutant: the eventName test is made whatever filterEnabled says
variantCallsFiltering(eventName, message) ==
  LET receivedMessageEventName ==
        IF IsNullish(message.applicationProperties)
          THEN Undefined
          ELSE GetField(message.applicationProperties, variantEventNameKey)
  IN IF receivedMessageEventName = eventName THEN <<message.body>> ELSE <<>>

\* the processMessage closure of subscribe: the onMessage calls it makes
variantCalls(eventName, message) ==
  LET receivedMessageEventName ==
        IF IsNullish(message.applicationProperties)
          THEN Undefined
          ELSE GetField(message.applicationProperties, variantEventNameKey)
  IN IF variant.options.filterEnabled
       THEN IF receivedMessageEventName = eventName
              THEN <<message.body>>
              ELSE <<>>
       ELSE <<message.body>>

\* a receiver hands a message to the handlers of one open handle
variantProcessMessage ==
  \E h \in DOMAIN variant.handles, message \in VariantMessages :
    /\ ~variant.handles[h].closed
    /\ variant' =
         [variant EXCEPT
            !.last = [op |-> "processMessage", handle |-> h, message |-> message,
                      calls |-> variantCalls(variant.handles[h].eventName,
                                             message)]]
    /\ UNCHANGED instance

\* the event names and payloads the variant's publish is given
VariantPublishNames == {"A", "B"}
VariantPayloads ==
  {RawPayload(v) : v \in {JsNull, JsString, JsObject(NoFields)}}
    \cup {Envelope(JsString, p) :
            p \in {JsUndefined, JsObject(NoFields), VariantTagged("A")}}

\* this.senderMap.get(eventName) || this.client.createSender(topicName)
senderFor(eventName) ==
  IF eventName \in DOMAIN variant.senderMap
    THEN [sender |-> variant.senderMap[eventName], senders |-> variant.senders]
    ELSE [sender |-> variant.senders + 1, senders |-> variant.senders + 1]

\* (payload as ServiceBusMessage).body !== undefined
variantIsServiceBusMessage(payload) == payload.body.kind # "undefined"

\* enrichMessage of the variant: sets the key only when
\* message.applicationProperties[key] === undefined
variantEnrichMessage(key, value, message) ==
  IF IsNullish(message.applicationProperties)
    THEN [message EXCEPT
            !.applicationProperties = SetField(JsObject(NoFields), key, value)]
    ELSE IF GetField(message.applicationProperties, key) = Undefined
      THEN [message EXCEPT
              !.applicationProperties = SetField(@, key, value)]
      ELSE message

\* the message the variant's publish hands to sender.sendMessages, or the
\* TypeError of reading .body of null or undefined
variantPublishResult(eventName, payload) ==
  IF IsNullish(payload) THEN Threw("TypeError")
  ELSE IF variantIsServiceBusMessage(payload)
    THEN LET message == [body |-> payload.body,
                         applicationProperties |-> payload.applicationProperties]
         IN IF IsNullish(message.applicationProperties)
              THEN Sent([message EXCEPT !.applicationProperties =
                           SetField(JsObject(NoFields), variantEventNameKey,
                                    eventName)])
              ELSE Sent(variantEnrichMessage(variantEventNameKey, eventName,
                                             message))
    ELSE Sent([body |-> [kind |-> payload.kind, f |-> payload.f],
               applicationProperties |->
                 SetField(JsObject(NoFields), variantEventNameKey, eventName)])

\* publish(eventName, payload) of the variant: the sender of the event name
\* is looked up or created and stored before the message is built and sent
variantPublish ==
  \E eventName \in VariantPublishNames, payload \in VariantPayloads,
     answer \in SendOutcomes :
    LET via == senderFor(eventName)
        res == variantPublishResult(eventName, payload)
        settled == IF res.outcome = "sent"
                     THEN sendMessages(res.message, answer)
                     ELSE [outcome |-> res.outcome, message |-> res.message,
                           answer |-> "notAsked", sends |-> 0]
    IN /\ variant.last.op # "none"
       /\ variant' =
            [variant EXCEPT
               !.senders = via.senders,
               !.senderMap =
                 [e \in DOMAIN variant.senderMap \cup {eventName} |->
                    IF e = eventName THEN via.sender ELSE variant.senderMap[e]],
               !.last = [op |-> "publish", eventName |-> eventName,
                         payload |-> payload, sender |-> via.sender,
                         outcome |-> settled.outcome,
                         message |-> settled.message,
                         answer |-> settled.answer, sends |-> settled.sends]]
       /\ UNCHANGED instance

InitVariant ==
  \E opts \in OptionsWith({Undefined}), vopts \in VariantOptions :
    /\ Construct(opts)
    /\ ~Provisioning
    /\ Broker
    /\ peer = NoPeer
    /\ variant = VariantConstruct(vopts)

NextVariant ==
  \/ variantSubscribe
  \/ variantUnsubscribe
  \/ variantCloseSettles
  \/ variantProcessMessage

SpecVariant == InitVariant /\ [][NextVariant]_vars

\* the publish calls of the variant
SpecVariantPublish == InitVariant /\ [][variantPublish]_vars

\* ---------------------------------------------------------- specifications
Next ==
  \/ initialize
  \/ createSubscriptionSettles
  \/ subscribe
  \/ unsubscribe
  \/ processMessage
  \/ processError
  \/ enginePublish
  \/ processPublished

Spec == Init /\ [][Next]_vars

\* publish alone, over every payload shape
SpecPublish == InitPublish /\ [][publish]_vars

\* two instances with provisioning enabled start on the same topic and
\* subscription name, and the broker serves both admin calls
InitStartup ==
  \E opts \in OptionsWith({Undefined}) :
    /\ Construct(opts)
    /\ Provisioning
    /\ Broker
    /\ peer = StartedPeer /\ variant = NoVariant

NextStartup ==
  \/ createSubscriptionAnswered
  \/ peerCreateSubscriptionSettles
  \/ subscribe
  \/ unsubscribe
  \/ processMessage
  \/ enginePublish
  \/ processPublished

SpecStartup == InitStartup /\ [][NextStartup]_vars

\* raw payloads: a string, an object, and objects with a field named body
DeliveryPayloads ==
  {RawPayload(JsString),
   RawPayload(SetField(JsObject(NoFields), "msg", "B")),
   [kind |-> "object", f |-> NoFields, body |-> JsString,
    applicationProperties |-> JsUndefined],
   [kind |-> "object", f |-> [k \in {"msg"} |-> "B"],
    body |-> SetField(JsObject(NoFields), "msg", "B"),
    applicationProperties |-> JsUndefined]}

publishRaw ==
  \E eventName \in PublishNames, payload \in DeliveryPayloads,
     answer \in SendOutcomes :
    Publish(eventName, payload, answer)

\* publish, the broker, and the delivery to the subscribers
NextDelivery ==
  \/ createSubscriptionSettles
  \/ subscribe
  \/ publishRaw
  \/ processPublished

SpecDelivery == Init /\ [][NextDelivery]_vars

\* an instance without provisioning: the constructor attached the receiver
InitAttached ==
  \E opts \in OptionsWith({Undefined}) :
    /\ Construct(opts)
    /\ ~Provisioning
    /\ Broker
    /\ peer = NoPeer /\ variant = NoVariant

\* deliveries whose callbacks unsubscribe, with the history of invocations
NextReentrant ==
  \/ subscribe
  \/ processMessageUnsubscribing

SpecReentrant == InitAttached /\ [][NextReentrant]_vars

\* three subscriptions, and deliveries in which a callback unsubscribes
NextSnapshot ==
  \/ subscribeSnapshot
  \/ processSnapshotMessage

SpecSnapshot == InitAttached /\ [][NextSnapshot]_vars

\* subscribe called while no receiver is attached yet
subscribeEarly == receivers = <<>> /\ subscribe

\* an instance with provisioning: the constructor's initialize() is awaiting
\* createSubscription
InitProvisioning ==
  \E opts \in OptionsWith({Undefined}) :
    /\ Construct(opts)
    /\ Provisioning
    /\ Broker
    /\ peer = NoPeer /\ variant = NoVariant

\* the startup, the subscriptions made before its receiver is attached, and
\* the deliveries
NextEarly ==
  \/ createSubscriptionSettles
  \/ subscribeEarly
  \/ unsubscribe
  \/ processMessage
  \/ enginePublish
  \/ processPublished

SpecEarly == InitProvisioning /\ [][NextEarly]_vars

\* the same, constructed with every eventNameKey option
SpecKey == InitPublish /\ [][NextDelivery]_vars

\* ------------------------------------------------------------------ claims
\* the event identity a message carries, where the active strategy keeps it
EventTag(event) ==
  IF useCustomProperty THEN PropertyTag(event)
  ELSE IF IsNullish(event.body) THEN Undefined
  ELSE GetField(event.body, eventNameKey)

\* the filter subscribe is specified to register
ReferenceFilter(eventId, event) ==
  eventId = "*" \/ (EventTag(event) # Undefined /\ EventTag(event) = eventId)

\* the entries of the registry
Registered == {subscriptions[id] : id \in DOMAIN subscriptions}

\* how often the last delivered message invoked the callback of pipe h
Invocations(h) == Len(last.calls[h])

\* C1: once subscribe has been called (any number of times, any event ids),
\* exactly one receiver has been created.
C1_ExactlyOneReceiver == Len(pipes) >= 1 => Len(receivers) = 1

\* C2: in every reachable state at most one receiver has been opened, a
\* consumer's own initialize() call included.
C2_AtMostOneReceiver == Len(receivers) <= 1

\* C3: a delivered message invokes each registered subscription on its tag
\* exactly once, and no registered subscription on another, non-wildcard id.
C3_FanOut ==
  last.op = "processMessage" =>
    \A h \in Registered :
      LET e == pipes[h].eventName
          tag == EventTag(last.event)
      IN /\ (tag # Undefined /\ e = tag) => Invocations(h) = 1
         /\ (e # "*" /\ e # tag) => Invocations(h) = 0

\* C4: a registered subscription on "*" is invoked for every delivered
\* message, tagged or not, under both strategies.
C4_Wildcard ==
  last.op = "processMessage" =>
    \A h \in Registered : pipes[h].eventName = "*" => Invocations(h) = 1

\* C5: once unsubscribe(id) has completed on a registry entry, no message
\* delivered afterwards invokes that entry's callback, and id is not a key of
\* the registry when unsubscribe returns.
C5_UnsubscribeStops ==
  /\ last.op = "processMessage" =>
       \A h \in DOMAIN pipes : pipes[h].unsubscribed => Invocations(h) = 0
  /\ last.op = "unsubscribe" => last.subId \notin DOMAIN subscriptions

\* a message that would have invoked an unsubscribed entry has been delivered
C5_Witness ==
  /\ last.op = "processMessage"
  /\ useCustomProperty
  /\ \E h \in DOMAIN pipes :
       /\ pipes[h].unsubscribed
       /\ filterPredicate(pipes[h].eventName, last.event)
       /\ Invocations(h) = 0

\* C6: after some unsubscribe(X) has completed, every delivered message that
\* matches the filter of a still-registered Y invokes Y's callback exactly once.
C6_Isolation ==
  (last.op = "processMessage" /\ \E x \in DOMAIN pipes : pipes[x].unsubscribed) =>
    \A h \in Registered :
      ReferenceFilter(pipes[h].eventName, last.event) => Invocations(h) = 1

\* C7: no unsubscribe call closes a receiver.
C7_UnsubscribeKeepsReceiver ==
  [][last'.op = "unsubscribe" => receivers' = receivers]_vars

\* the last registered subscription has been unsubscribed, a receiver is open
C7_Witness ==
  /\ last.op = "unsubscribe"
  /\ last.known
  /\ DOMAIN subscriptions = {}
  /\ \E r \in DOMAIN receivers : ~receivers[r].closed

\* C8: unsubscribe with an id that is not in the registry (never returned, or
\* already unsubscribed) resolves without an error and leaves the registry,
\* every subscription and the receivers as they were.
C8_UnknownIdIsNoOp ==
  [][(last'.op = "unsubscribe" /\ last'.subId \notin DOMAIN subscriptions) =>
       /\ last'.outcome = "resolved"
       /\ subscriptions' = subscriptions
       /\ pipes' = pipes
       /\ receivers' = receivers]_vars

\* unsubscribe was called a second time with the same id, another
\* subscription being registered
C8_Witness ==
  /\ last.op = "unsubscribe"
  /\ ~last.known
  /\ last.outcome = "resolved"
  /\ \E h \in DOMAIN pipes : pipes[h].unsubscribed /\ pipes[h].id = last.subId
  /\ \E h \in Registered : ~pipes[h].closed

PublishSent == last.op = "publish" /\ last.outcome = "sent"

\* C9 as claimed: the identity read back from every sent message is the
\* eventId publish was given.
C9_RoundTrip == PublishSent => EventTag(last.message) = last.eventName

\* C9 as amended: the identity read back is the eventId, except that under the
\* property strategy an Envelope that already holds a value at the key in
\* applicationProperties reads back that value.
C9_RoundTripUnlessTagged ==
  PublishSent =>
    EventTag(last.message) =
      IF /\ useCustomProperty
         /\ isServiceBusMessage(last.payload)
         /\ PropertyTag(last.payload) # Undefined
        THEN PropertyTag(last.payload)
        ELSE last.eventName

\* an Envelope tagged "B" in applicationProperties was published as "A"
C9_Witness ==
  /\ PublishSent
  /\ useCustomProperty
  /\ isServiceBusMessage(last.payload)
  /\ PropertyTag(last.payload) = "B"
  /\ last.eventName = "A"
  /\ EventTag(last.message) = "B"

\* an Envelope that holds a value at the key, where the strategy keeps it
Pretagged ==
  /\ PublishSent
  /\ isServiceBusMessage(last.payload)
  /\ EventTag(last.payload) # Undefined

\* C10 as claimed: the value a caller-supplied Envelope holds at the key is
\* the value at the key in the sent message, under both strategies.
C10_NeverOverwrites ==
  Pretagged => EventTag(last.message) = EventTag(last.payload)

\* C10 as amended: under the property strategy the caller's value at the key
\* is kept; under the bodyField strategy body[key] is set to the eventId.
C10_KeepsPropertyOverwritesBody ==
  Pretagged =>
    EventTag(last.message) =
      IF useCustomProperty THEN EventTag(last.payload) ELSE last.eventName

\* an Envelope with a string body and its own value at the key was sent with
\* its applicationProperties as the caller built them
C10_Witness ==
  /\ Pretagged
  /\ useCustomProperty
  /\ last.payload.body = JsString
  /\ last.eventName # EventTag(last.payload)
  /\ last.message.applicationProperties = last.payload.applicationProperties

\* the own keys of an object, none for undefined or null
Keys(v) == IF v.kind = "object" THEN DOMAIN v.f ELSE {}

\* C11: in the message handed to the sender, every applicationProperties key
\* of a caller-supplied Envelope other than the event-identity key keeps its
\* value, and no key other than the event-identity key has been added.
C11_NonDestructiveEnrichment ==
  (PublishSent /\ isServiceBusMessage(last.payload)) =>
    LET before == last.payload.applicationProperties
        after == last.message.applicationProperties
    IN /\ \A k \in Keys(before) \ {eventNameKey} :
            k \in Keys(after) /\ after.f[k] = before.f[k]
       /\ Keys(after) \subseteq Keys(before) \cup {eventNameKey}

\* an Envelope carrying only unrelated metadata was tagged under the property
\* strategy: the sent message holds the metadata and the tag
C11_Witness ==
  /\ PublishSent
  /\ useCustomProperty
  /\ isServiceBusMessage(last.payload)
  /\ Keys(last.payload.applicationProperties) = {"other"}
  /\ Keys(last.message.applicationProperties) = {"other", eventNameKey}
  /\ last.message.applicationProperties.f[eventNameKey] = last.eventName

\* the constructor's initialize() is still awaiting createSubscription
StartupInFlight ==
  \E i \in DOMAIN initCalls :
    initCalls[i].caller = "constructor" /\ initCalls[i].pc = "createSubscription"

\* a fatal receive error has closed a receiver
Stopped == \E r \in DOMAIN receivers : receivers[r].closed

\* C14: when createSubscription fails with an error other than already-exists,
\* the admin call is not repeated, no receiver is created, that initialize()
\* ends by throwing, and the error reaches the caller that started it.
C14_AbortPropagates ==
  [][(last'.op = "createSubscriptionSettles"
        /\ last'.outcome \notin {"created", "MessageEntityAlreadyExistsError"}) =>
       /\ adminCalls' = adminCalls
       /\ receivers' = receivers
       /\ initCalls'[last'.call].pc = "threw"
       /\ last'.rejection = "caller"]_vars

\* C15: with createSubscription false the admin create-operation is never
\* invoked; with createSubscription true the startup invokes it exactly once,
\* createSubscriptionOptions given or not.
C15_ProvisionOnce ==
  IF options.createSubscription
    THEN Len(initCalls) = 1 => adminCalls = 1
    ELSE adminCalls = 0

\* C16: a subscribe or publish call made while the startup provisioning is in
\* flight fails with a not-ready error.
C16_NotReady ==
  (last.op \in {"subscribe", "publish"} /\ StartupInFlight) =>
    last.outcome = "NotReady"

\* C17: once a fatal receive error has closed a receiver, it stays closed, no
\* step other than an initialize() call creates a receiver, and no delivered
\* message invokes a subscriber callback.
C17_FatalIsTerminal ==
  [][Stopped =>
       /\ \A r \in DOMAIN receivers : receivers[r].closed => receivers'[r].closed
       /\ (Len(receivers') = Len(receivers)
             \/ last'.op \in {"initialize", "createSubscriptionSettles"})
       /\ last'.op = "processMessage" =>
            \A h \in DOMAIN pipes' : Len(last'.calls[h]) = 0]_vars

\* C18: after a fatal receive error has stopped the engine, every subscribe
\* and every publish call fails with EngineStopped.
C18_EngineStopped ==
  (last.op \in {"subscribe", "publish"} /\ Stopped) =>
    last.outcome = "EngineStopped"

\* the receive errors the claim calls non-fatal: busy, lock lost, any other
\* broker code, an error that is not a Service Bus error
NonFatalErrors == {"ServiceBusy", "MessageLockLost", "GeneralError", "NotServiceBusError"}

\* C19: a receive error that is not fatal leaves the receivers open, the
\* registry and every subscription as they were, and a receiver to deliver the
\* next message; for ServiceBusy the handler waits the backoff interval, for
\* the others it does not wait.
C19_NonFatalContinues ==
  [][(last'.op = "processError" /\ last'.code \in NonFatalErrors) =>
       /\ receivers' = receivers
       /\ subscriptions' = subscriptions
       /\ pipes' = pipes
       /\ \E r \in DOMAIN receivers' : ~receivers'[r].closed
       /\ last'.delay = (IF last'.code = "ServiceBusy" THEN BackoffMs ELSE 0)]_vars

\* ServiceBusy was reported while a subscription is live: the handler waited
\* and the subscription and a receiver are still there
C19_Witness ==
  /\ last.op = "processError"
  /\ last.code = "ServiceBusy"
  /\ last.delay = BackoffMs
  /\ \E h \in Registered : ~pipes[h].closed
  /\ \E r \in DOMAIN receivers : ~receivers[r].closed

\* C20: a publish call asks the sender at most once; when the sender fails the
\* call, publish fails with that error after that one attempt, and the
\* registry, the subscriptions and the receivers are unchanged.
C20_SendOnce ==
  [][last'.op = "publish" =>
       /\ last'.sends <= 1
       /\ last'.answer = "SendError" =>
            (last'.outcome = "SendError" /\ last'.sends = 1)
       /\ receivers' = receivers
       /\ subscriptions' = subscriptions
       /\ pipes' = pipes]_vars

\* the sender failed a publish made while a subscription is registered
C20_Witness ==
  /\ last.op = "publish"
  /\ last.answer = "SendError"
  /\ last.outcome = "SendError"
  /\ last.sends = 1
  /\ Registered # {}

\* the payload whose value is the body a callback was given
AsPayload(body) == RawPayload(body)

\* C12: when the receiver delivers the message of publish(E, P), every
\* registered subscription on E is invoked once with a value equal to P (the
\* object the caller passed, as publish left it), and every registered
\* subscription on another, non-wildcard id is not invoked.
C12_EndToEnd ==
  (last.op = "processMessage" /\ last.published # NoPublish) =>
    \A h \in Registered :
      LET e == pipes[h].eventName
      IN /\ e = last.published.eventName =>
              /\ Len(last.calls[h]) = 1
              /\ AsPayload(last.calls[h][1]) =
                   payloadAfterPublish(last.published.eventName,
                                       last.published.payload)
         /\ e \notin {last.published.eventName, "*"} => last.calls[h] = <<>>

\* C13: of two instances starting concurrently with provisioning enabled,
\* neither startup throws, and each startup that has ended has attached its
\* receiver.
C13_BothStartupsSucceed ==
  /\ peer.pc # "threw"
  /\ \A i \in DOMAIN initCalls : initCalls[i].pc # "threw"
  /\ peer.pc = "done" => peer.receivers = 1
  /\ initCalls[1].pc = "done" => Len(receivers) = 1

\* the other instance created the subscription, this one was answered
\* already-exists, and both have their receiver
C13_Witness ==
  /\ peer.pc = "done"
  /\ peer.answer = "created"
  /\ peer.receivers = 1
  /\ last.op = "createSubscriptionSettles"
  /\ last.outcome = "MessageEntityAlreadyExistsError"
  /\ initCalls[1].pc = "done"
  /\ Len(receivers) = 1

\* C21: whatever publish calls have been made on an instance, with the same
\* or different event ids, exactly one sender has been created and every
\* publish used it: in the main class, and in the per-event-name variant.
C21_OneSender ==
  /\ Len(senders) = 1
  /\ (last.op = "publish" /\ last.sends > 0) => last.sender = 1
  /\ variant.senders <= 1
  /\ variant.last.op = "publish" =>
       (variant.senders = 1 /\ variant.last.sender = 1)

\* a body the bodyField strategy cannot write the event name into: a string,
\* a number
ScalarBody(payload) ==
  IF isServiceBusMessage(payload)
    THEN payload.body.kind \in {"string", "number"}
    ELSE payload.kind \in {"string", "number"}

\* C22: under the bodyField strategy, publish of a payload whose
\* body is a scalar fails with UnsupportedBodyShape and sends nothing.
C22_UnsupportedBodyShape ==
  [][(last'.op = "publish" /\ ~useCustomProperty /\ ScalarBody(last'.payload)) =>
       /\ last'.outcome = "UnsupportedBodyShape"
       /\ last'.sends = 0
       /\ topic' = topic]_vars

\* C23: no subscribe call returns an id that an earlier call returned, so
\* none replaces the registry entry of a still-registered subscription.
C23_UniqueIds ==
  [][last'.op = "subscribe" =>
       /\ \A h \in DOMAIN pipes : pipes[h].id # last'.id
       /\ last'.id \notin DOMAIN subscriptions]_vars

\* C24: publish invokes no subscriber callback and leaves every subscription
\* as it was; a callback is invoked for a published message only in the
\* processMessage of an open receiver that delivers it from the topic.
C24_PublishBypassesBus ==
  [][/\ last'.op = "publish" =>
          /\ \A h \in DOMAIN pipes : last'.calls[h] = <<>>
          /\ pipes' = pipes
     /\ (last'.op = "processMessage" /\ last'.published # NoPublish) =>
          /\ topic # <<>>
          /\ Head(topic).message = last'.event
          /\ \E r \in DOMAIN receivers : ~receivers[r].closed]_vars

\* a message was published on "A" while a live subscription on "A" was
\* registered, and is still on the topic
C24_Witness ==
  /\ PublishSent
  /\ last.eventName = "A"
  /\ topic # <<>>
  /\ \E h \in Registered :
       /\ pipes[h].eventName = "A"
       /\ ~pipes[h].closed
       /\ last.calls[h] = <<>>

\* the value of a raw payload
RawValue(payload) == [kind |-> payload.kind, f |-> payload.f]

\* C25: for a raw payload, the property strategy sends applicationProperties
\* holding the key alone, with the event id, and the payload as the body,
\* without the key added; the bodyField strategy sends the payload with the
\* event id at the key as the body, and no applicationProperties.
C25_TagInOnePlace ==
  (PublishSent /\ ~isServiceBusMessage(last.payload)) =>
    IF useCustomProperty
      THEN /\ last.message.applicationProperties =
                SetField(JsObject(NoFields), eventNameKey, last.eventName)
           /\ last.message.body = RawValue(last.payload)
      ELSE /\ last.message.applicationProperties = JsUndefined
           /\ GetField(last.message.body, eventNameKey) = last.eventName
           /\ \A k \in Keys(RawValue(last.payload)) \ {eventNameKey} :
                GetField(last.message.body, k) = last.payload.f[k]
           /\ Keys(last.message.body) =
                Keys(RawValue(last.payload)) \cup {eventNameKey}

\* an object without the key was published under the property strategy: the
\* sent body has no field at the key
C25_Witness ==
  /\ PublishSent
  /\ ~isServiceBusMessage(last.payload)
  /\ useCustomProperty
  /\ Keys(RawValue(last.payload)) = {"msg"}
  /\ Keys(last.message.body) = {"msg"}
  /\ Keys(last.message.applicationProperties) = {eventNameKey}

\* the key as the claim has it: the option when one is given
SuppliedKey ==
  IF options.eventNameKey = Undefined
    THEN "eventName"
    ELSE options.eventNameKey

\* the key as amended: the option when it is a non-empty string
NonEmptySuppliedKey ==
  IF options.eventNameKey \in {Undefined, ""}
    THEN "eventName"
    ELSE options.eventNameKey

\* publish writes the event id at key k, where the strategy keeps it, and the
\* filters read it there: the delivery of a published message invokes every
\* registered subscription on its event id
TagsAndFiltersAt(k) ==
  /\ PublishSent =>
       (IF useCustomProperty
          THEN GetField(last.message.applicationProperties, k)
          ELSE GetField(last.message.body, k)) = last.eventName
  /\ (last.op = "processMessage" /\ last.published # NoPublish) =>
       \A h \in Registered :
         pipes[h].eventName = last.published.eventName =>
           Len(last.calls[h]) = 1

\* C26 as claimed: publish tags and subscribe filters at the configured
\* eventNameKey when the options hold one, at "eventName" otherwise.
C26_SuppliedKey == TagsAndFiltersAt(SuppliedKey)

\* C26 as amended: publish tags and subscribe filters at the configured
\* eventNameKey when the options hold a non-empty one, at "eventName" when the
\* option is missing or the empty string.
C26_NonEmptySuppliedKey == TagsAndFiltersAt(NonEmptySuppliedKey)

\* with eventNameKey "key" and the bodyField strategy, a message published on
\* an event id was delivered with the id at body.key and invoked a
\* subscription on that id
C26_Witness ==
  /\ options.eventNameKey = "key"
  /\ ~useCustomProperty
  /\ last.op = "processMessage"
  /\ last.published # NoPublish
  /\ GetField(last.event.body, "key") = last.published.eventName
  /\ \E h \in Registered :
       /\ pipes[h].eventName = last.published.eventName
       /\ Len(last.calls[h]) = 1

\* C27: the filter subscribe registers is the reference predicate: a live
\* subscription on eventId, the empty string included, is invoked by a
\* delivered message exactly when eventId is "*" or the message carries
\* eventId at the key, and a message without the key invokes only "*".
C27_FilterIsReference ==
  [][last'.op = "processMessage" =>
       \A h \in DOMAIN pipes :
         ~pipes[h].closed =>
           ((Len(last'.calls[h]) = 1)
              <=> ReferenceFilter(pipes[h].eventName, last'.event))]_vars

\* C28: when the callback of one subscription, invoked for a message,
\* unsubscribes another whose callback has not yet run for that message, the
\* other is not invoked for that message, and every other entry of the
\* registry that the message matches is invoked exactly once; and no message
\* invokes an entry that was unsubscribed before.  Stated for subscriptions
\* whose ids differ.
C28_SnapshotDispatch ==
  [][(last'.op = "processMessage"
        /\ \A i, j \in DOMAIN pipes : pipes[i].id = pipes[j].id => i = j) =>
       /\ (last'.target # NoSubscription /\ last'.target > last'.by) =>
            /\ last'.calls[last'.target] = <<>>
            /\ \A h \in Registered \ {last'.target} :
                 ReferenceFilter(pipes[h].eventName, last'.event) =>
                   Len(last'.calls[h]) = 1
       /\ \A h \in DOMAIN pipes :
            pipes[h].unsubscribed => last'.calls[h] = <<>>]_vars

\* C29: the bodies passed to one callback are bodies of delivered messages,
\* in the order the receiver delivered them: of two invocations of the same
\* callback the later one is for a later delivery.
C29_DeliveryOrder ==
  /\ \A i \in DOMAIN log.invoked :
        /\ log.invoked[i].n \in DOMAIN log.delivered
        /\ log.invoked[i].body = log.delivered[log.invoked[i].n].body
  /\ \A i, j \in DOMAIN log.invoked :
        (i < j /\ log.invoked[i].h = log.invoked[j].h) =>
          log.invoked[i].n < log.invoked[j].n

\* one callback was passed the bodies of two deliveries with different bodies
C29_Witness ==
  \E i, j \in DOMAIN log.invoked :
    /\ i < j
    /\ log.invoked[i].h = log.invoked[j].h
    /\ log.invoked[i].n = 1
    /\ log.invoked[j].n = 2
    /\ log.invoked[i].body # log.invoked[j].body

\* C30: every registered subscription is live: no delivered message, one
\* without a body or without the key under bodyField included, terminates a
\* subscription that is still in the registry.
C30_RegisteredStaysLive == \A h \in Registered : ~pipes[h].closed

\* C31: every subscription that a delivery can still invoke is an entry of
\* the registry, so that some unsubscribe(id) stops it, and every key of the
\* registry is the id of the subscription it maps to, not yet unsubscribed.
C31_RegistryConsistent ==
  /\ \A h \in DOMAIN pipes : ~pipes[h].closed => h \in Registered
  /\ \A id \in DOMAIN subscriptions :
       /\ pipes[subscriptions[id]].id = id
       /\ ~pipes[subscriptions[id]].unsubscribed

\* C32: a subscription made before a receiver was attached (every
\* subscription of SpecEarly is) is not lost: once a receiver is attached,
\* every message it delivers that matches a subscription still registered
\* invokes that subscription's callback once, however subscribe and the
\* startup interleaved.
C32_EarlySubscriptionServed ==
  [][(last'.op = "processMessage" /\ Provisioning) =>
       \A h \in Registered :
         ReferenceFilter(pipes[h].eventName, last'.event) =>
           Len(last'.calls[h]) = 1]_vars

\* the event name a message of the variant carries in applicationProperties
VariantTag(message) ==
  IF IsNullish(message.applicationProperties)
    THEN Undefined
    ELSE GetField(message.applicationProperties, variantEventNameKey)

\* C33: in the variant, with filterEnabled false a subscriber's callback is
\* invoked with the body of every message its handlers receive, whatever
\* event name it subscribed to; with filterEnabled true it is invoked, with
\* the body, exactly for the messages whose applicationProperties hold the
\* subscribed event name at the key.
C33_VariantFilter ==
  variant.last.op = "processMessage" =>
    LET message == variant.last.message
        eventName == variant.handles[variant.last.handle].eventName
    IN IF variant.options.filterEnabled /\ VariantTag(message) # eventName
         THEN variant.last.calls = <<>>
         ELSE variant.last.calls = <<message.body>>

\* with filterEnabled false a subscriber on "B" was given the body of a
\* message tagged "A"
C33_Witness ==
  /\ variant.last.op = "processMessage"
  /\ ~variant.options.filterEnabled
  /\ variant.handles[variant.last.handle].eventName = "B"
  /\ VariantTag(variant.last.message) = "A"
  /\ variant.last.calls = <<JsString>>

\* C34: in the variant, unsubscribe(id) for an id of the handler map calls
\* close on the handle registered under id and on no other, and removes the
\* handler entry once close has resolved; unsubscribe with an unknown id
\* closes nothing and changes nothing; and subscriptions to the same event
\* name share one receiver, one being created per event name.
C34_VariantUnsubscribe ==
  [][/\ (variant'.last.op = "unsubscribe"
           /\ variant'.last.subId \in DOMAIN variant.handlerMap) =>
          LET c == variant.handlerMap[variant'.last.subId]
          IN /\ variant'.handles[c].closeCalled
             /\ variant'.closing =
                  Append(variant.closing,
                         [subId |-> variant'.last.subId, handle |-> c])
             /\ \A h \in DOMAIN variant.handles \ {c} :
                  variant'.handles[h] = variant.handles[h]
     /\ (variant'.last.op = "closeSettles"
           /\ variant'.last.answer = "resolved") =>
          /\ variant'.handles[variant'.last.handle].closed
          /\ variant'.last.subId \notin DOMAIN variant'.handlerMap
     /\ (variant'.last.op = "unsubscribe"
           /\ variant'.last.subId \notin DOMAIN variant.handlerMap) =>
          /\ variant'.handles = variant.handles
          /\ variant'.closing = variant.closing
          /\ variant'.handlerMap = variant.handlerMap
     /\ \A h, g \in DOMAIN variant'.handles :
          variant'.handles[h].eventName = variant'.handles[g].eventName =>
            variant'.handles[h].receiver = variant'.handles[g].receiver
     /\ variant'.receivers =
          Cardinality({variant'.handles[h].eventName :
                         h \in DOMAIN variant'.handles})]_vars

\* two subscriptions on "A" share the one receiver; the first has been
\* unsubscribed, its handle is closed and its handler entry is gone
C34_Witness ==
  /\ variant.last.op = "closeSettles"
  /\ variant.last.answer = "resolved"
  /\ variant.last.handle = 1
  /\ Len(variant.handles) = 2
  /\ variant.handles[1].eventName = "A"
  /\ variant.handles[2].eventName = "A"
  /\ variant.receivers = 1
  /\ variant.handles[1].closed
  /\ ~variant.handles[2].closed
  /\ variant.last.subId \notin DOMAIN variant.handlerMap

====
